---- MODULE Spec2Model ----
(***************************************************************************)
(* Model of the interior-mut crate (src/src/lib.rs): the InteriorMut       *)
(* bindings for RefCell, Mutex, RwLock and Rc, and the StrongReference /   *)
(* WeakReference bindings for Rc / Weak.                                   *)
(*                                                                         *)
(* Every binding is a one-line delegation to a standard container, so the  *)
(* operators below give the container operation each delegation calls:     *)
(* RefCell's signed borrow flag, the lock word and poison flag of Mutex    *)
(* and RwLock, the strong/weak counts of an Rc allocation.                 *)
(*                                                                         *)
(* Two worlds share the module:                                            *)
(*   Spec      single-threaded: Rc<RefCell<T>> allocations borrowed through *)
(*             their strong handle, and for every allocation a second      *)
(*             RefCell that receives the same calls directly;              *)
(*   SpecRc    the same allocations with downgrade, upgrade and the drops  *)
(*             of strong and weak handles;                                 *)
(*   SpecLock  several threads borrowing from one Mutex or one RwLock,     *)
(*             FairSpecLock the same under fair thread scheduling.         *)
(***************************************************************************)
EXTENDS Integers, FiniteSets, Sequences, TLC

\* ---------------------------------------------------------------- bounds
NumAllocs == 2        \* Rc allocations that can be live at once
MaxRc == 2            \* strong handle slots
MaxWeak == 2          \* weak handle slots
MaxShared == 2        \* shared guards outstanding on one cell
MaxValue == 1         \* wrapped values are 0..MaxValue
NumThreads == 3       \* threads of the lock world
MaxHeld == 2          \* guards one thread holds at once

Allocs == 1..NumAllocs
Handles == 1..MaxRc
WeakHandles == 1..MaxWeak
Values == 0..MaxValue
Threads == 1..NumThreads

VARIABLES
    inner,      \* inner[a]: the RefCell inside Rc allocation a
    plain,      \* plain[a]: a RefCell given the same calls without the Rc
    strong,     \* strong[a]: strong count of allocation a
    weak,       \* weak[a]: weak count of a (+1 while any strong handle lives)
    rc,         \* rc[h]: allocation strong handle h points to, 0 = no handle
    wk,         \* wk[k]: allocation weak handle k points to, 0 = no handle
    gS, gM,     \* guards obtained through strong handle h: Ref count, RefMut count
    pS, pM,     \* guards obtained from plain[a]: Ref count, RefMut count
    res,        \* outcome of the last borrow call through Rc and on the plain cell
    upg,        \* the last upgrade: "none" yet, "Some"/"None", or "RoundTripSome"/"RoundTripNone"
                \* from downgrade().upgrade()
    kind,       \* lock world: "Mutex" or "RwLock"
    lock,       \* lock word: [locked, readers, writer, poisoned]
    pc,         \* pc[t]: "idle", "borrow_int", "borrow_int_mut" (blocked) or "panicked"
    held,       \* held[t]: guards thread t owns, by kind
    ret,        \* ret[t]: outcome of t's last borrow call
    diedExcl    \* diedExcl[t]: t panicked while owning an exclusive guard

cellVars == <<inner, plain, strong, weak, rc, wk, gS, gM, pS, pM, res, upg>>
lockVars == <<kind, lock, pc, held, ret, diedExcl>>
vars == <<inner, plain, strong, weak, rc, wk, gS, gM, pS, pM, res, upg,
          kind, lock, pc, held, ret, diedExcl>>

\* ------------------------------------------------------- RefCell binding
\* RefCell's borrow flag: 0 unused, n > 0 = n shared borrows, -1 = exclusive.
NewCell(v) == [borrow |-> 0, value |-> v]

\* Mutants of borrow_int: the exclusive-borrow check left out; the flag bumped
\* before the check and not rolled back on failure.
RefCell_borrow_int_Unchecked(c) ==
    [out |-> "Ok", cell |-> [c EXCEPT !.borrow = @ + 1]]

RefCell_borrow_int_NoRollback(c) ==
    IF c.borrow >= 0
    THEN [out |-> "Ok", cell |-> [c EXCEPT !.borrow = @ + 1]]
    ELSE [out |-> "BorrowError", cell |-> [c EXCEPT !.borrow = @ + 1]]

\* <RefCell<T> as InteriorMut<T>>::borrow_int = RefCell::try_borrow
RefCell_borrow_int(c) ==
    IF c.borrow >= 0
    THEN [out |-> "Ok", cell |-> [c EXCEPT !.borrow = @ + 1]]
    ELSE [out |-> "BorrowError", cell |-> c]

\* Mutant of borrow_int_mut: refuses only while another exclusive borrow is out.
RefCell_borrow_int_mut_IgnoresShared(c) ==
    IF c.borrow >= 0
    THEN [out |-> "Ok", cell |-> [c EXCEPT !.borrow = -1]]
    ELSE [out |-> "BorrowMutError", cell |-> c]

\* <RefCell<T> as InteriorMut<T>>::borrow_int_mut = RefCell::try_borrow_mut
RefCell_borrow_int_mut(c) ==
    IF c.borrow = 0
    THEN [out |-> "Ok", cell |-> [c EXCEPT !.borrow = -1]]
    ELSE [out |-> "BorrowMutError", cell |-> c]

\* Ref<'a> leaves scope
Ref_drop(c) == [c EXCEPT !.borrow = @ - 1]

\* RefMut<'a> leaves scope
RefMut_drop(c) == [c EXCEPT !.borrow = @ + 1]

\* DerefMut through a RefMut<'a>
RefMut_write(c, v) == [c EXCEPT !.value = v]

\* ------------------------------------------------------------ Rc binding
\* Deref of Rc<I>: the container inside the allocation the handle points to
Rc_deref(p, heap) == heap[p]

\* Mutant of the forwarding: borrow_int forwards to the inner borrow_int_mut.
Rc_borrow_int_ForwardsMut(p, heap) ==
    LET r == RefCell_borrow_int_mut(Rc_deref(p, heap))
    IN [out |-> IF r.out = "Ok" THEN "Ok" ELSE "BorrowError", cell |-> r.cell]

\* <Rc<I> as InteriorMut<T>>::borrow_int = self.deref().borrow_int()
Rc_borrow_int(p, heap) == RefCell_borrow_int(Rc_deref(p, heap))

\* <Rc<I> as InteriorMut<T>>::borrow_int_mut = self.deref().borrow_int_mut()
Rc_borrow_int_mut(p, heap) == RefCell_borrow_int_mut(Rc_deref(p, heap))

\* <Rc<I> as StrongReference<T>>::downgrade = Rc::downgrade: a Weak to the
\* same allocation, weak count + 1; no failure outcome.
Rc_downgrade(p, w) == [ptr |-> p, weak |-> [w EXCEPT ![p] = @ + 1]]

\* Mutants of upgrade: the strong count is not looked at; None is always returned.
Weak_upgrade_Unchecked(p, s) ==
    [some |-> TRUE, ptr |-> p, strong |-> [s EXCEPT ![p] = @ + 1]]

Weak_upgrade_AlwaysNone(p, s) == [some |-> FALSE, ptr |-> 0, strong |-> s]

\* <Weak<I> as WeakReference<T>>::upgrade = Weak::upgrade: None when the
\* strong count is 0, else Some(Rc) to the same allocation, strong count + 1.
Weak_upgrade(p, s) ==
    IF s[p] = 0
    THEN [some |-> FALSE, ptr |-> 0, strong |-> s]
    ELSE [some |-> TRUE, ptr |-> p, strong |-> [s EXCEPT ![p] = @ + 1]]

\* ------------------------------------------------- single-threaded world
NoRes == [op |-> "none", rc |-> "none", plain |-> "none"]

FreeRc == {h \in Handles : rc[h] = 0}
FreeWeak == {k \in WeakHandles : wk[k] = 0}
Least(S) == CHOOSE x \in S : \A y \in S : x <= y

LockStart ==
    /\ lock = [locked |-> FALSE, readers |-> 0, writer |-> FALSE, poisoned |-> FALSE]
    /\ pc = [t \in Threads |-> "idle"]
    /\ held = [t \in Threads |-> [sh |-> 0, ex |-> 0, errSh |-> 0, errEx |-> 0]]
    /\ ret = [t \in Threads |-> "none"]
    /\ diedExcl = [t \in Threads |-> FALSE]

CellInit ==
    /\ inner = [a \in Allocs |-> NewCell(0)]
    /\ plain = [a \in Allocs |-> NewCell(0)]
    /\ strong = [a \in Allocs |-> 0]
    /\ weak = [a \in Allocs |-> 0]
    /\ rc = [h \in Handles |-> 0]
    /\ wk = [k \in WeakHandles |-> 0]
    /\ gS = [h \in Handles |-> 0]
    /\ gM = [h \in Handles |-> 0]
    /\ pS = [a \in Allocs |-> 0]
    /\ pM = [a \in Allocs |-> 0]
    /\ res = NoRes
    /\ upg = "none"

Init == CellInit /\ kind = "Mutex" /\ LockStart

FreeAllocs == {a \in Allocs : strong[a] = 0 /\ weak[a] = 0}

\* Rc::new(RefCell::new(v)) into the least free allocation: strong = 1,
\* weak = 1 (the weak count held on behalf of all strong handles). The same
\* value is put in a RefCell of its own, plain[a].
RcNew(v) ==
    /\ FreeRc # {}
    /\ FreeAllocs # {}
    /\ LET h == Least(FreeRc)
           a == Least(FreeAllocs)
       IN /\ rc' = [rc EXCEPT ![h] = a]
          /\ strong' = [strong EXCEPT ![a] = 1]
          /\ weak' = [weak EXCEPT ![a] = 1]
          /\ inner' = [inner EXCEPT ![a] = NewCell(v)]
          /\ plain' = [plain EXCEPT ![a] = NewCell(v)]
          /\ pS' = [pS EXCEPT ![a] = 0]
          /\ pM' = [pM EXCEPT ![a] = 0]
    /\ UNCHANGED <<wk, gS, gM, res, upg>>

\* borrow_int through strong handle h, and the same call on the plain cell.
BorrowInt(h) ==
    /\ rc[h] # 0
    /\ LET a == rc[h]
           r == Rc_borrow_int(a, inner)
           d == RefCell_borrow_int(plain[a])
       IN /\ inner[a].borrow < MaxShared /\ plain[a].borrow < MaxShared
          /\ inner' = [inner EXCEPT ![a] = r.cell]
          /\ gS' = [gS EXCEPT ![h] = IF r.out = "Ok" THEN @ + 1 ELSE @]
          /\ plain' = [plain EXCEPT ![a] = d.cell]
          /\ pS' = [pS EXCEPT ![a] = IF d.out = "Ok" THEN @ + 1 ELSE @]
          /\ res' = [op |-> "borrow_int", rc |-> r.out, plain |-> d.out]
    /\ UNCHANGED <<strong, weak, rc, wk, gM, pM, upg>>

\* borrow_int_mut through strong handle h, and the same call on the plain cell.
BorrowIntMut(h) ==
    /\ rc[h] # 0
    /\ LET a == rc[h]
           r == Rc_borrow_int_mut(a, inner)
           d == RefCell_borrow_int_mut(plain[a])
       IN /\ inner' = [inner EXCEPT ![a] = r.cell]
          /\ gM' = [gM EXCEPT ![h] = IF r.out = "Ok" THEN @ + 1 ELSE @]
          /\ plain' = [plain EXCEPT ![a] = d.cell]
          /\ pM' = [pM EXCEPT ![a] = IF d.out = "Ok" THEN @ + 1 ELSE @]
          /\ res' = [op |-> "borrow_int_mut", rc |-> r.out, plain |-> d.out]
    /\ UNCHANGED <<strong, weak, rc, wk, gS, pS, upg>>

\* A Ref obtained through h leaves scope; so does one obtained from plain[a].
DropRef(h) ==
    /\ rc[h] # 0 /\ gS[h] > 0
    /\ LET a == rc[h]
       IN /\ inner' = [inner EXCEPT ![a] = Ref_drop(@)]
          /\ gS' = [gS EXCEPT ![h] = @ - 1]
          /\ plain' = [plain EXCEPT ![a] = IF pS[a] > 0 THEN Ref_drop(@) ELSE @]
          /\ pS' = [pS EXCEPT ![a] = IF @ > 0 THEN @ - 1 ELSE @]
    /\ UNCHANGED <<strong, weak, rc, wk, gM, pM, res, upg>>

\* A RefMut obtained through h leaves scope; so does the one from plain[a].
DropRefMut(h) ==
    /\ rc[h] # 0 /\ gM[h] > 0
    /\ LET a == rc[h]
       IN /\ inner' = [inner EXCEPT ![a] = RefMut_drop(@)]
          /\ gM' = [gM EXCEPT ![h] = @ - 1]
          /\ plain' = [plain EXCEPT ![a] = IF pM[a] > 0 THEN RefMut_drop(@) ELSE @]
          /\ pM' = [pM EXCEPT ![a] = IF @ > 0 THEN @ - 1 ELSE @]
    /\ UNCHANGED <<strong, weak, rc, wk, gS, pS, res, upg>>

\* A write through the RefMut obtained through h (and through the plain one).
Write(h, v) ==
    /\ rc[h] # 0 /\ gM[h] > 0
    /\ LET a == rc[h]
       IN /\ inner[a].value # v
          /\ inner' = [inner EXCEPT ![a] = RefMut_write(@, v)]
          /\ plain' = [plain EXCEPT ![a] = IF pM[a] > 0 THEN RefMut_write(@, v) ELSE @]
    /\ UNCHANGED <<strong, weak, rc, wk, gS, gM, pS, pM, res, upg>>

\* `*h.borrow_int_mut()? = v`: borrow, write and release in one statement
\* (and the same statement on the plain cell).
WriteThrough(h, v) ==
    /\ rc[h] # 0
    /\ LET a == rc[h]
           r == Rc_borrow_int_mut(a, inner)
           d == RefCell_borrow_int_mut(plain[a])
       IN /\ inner[a].value # v
          /\ inner' = [inner EXCEPT ![a] =
                IF r.out = "Ok" THEN RefMut_drop(RefMut_write(r.cell, v)) ELSE r.cell]
          /\ plain' = [plain EXCEPT ![a] =
                IF d.out = "Ok" THEN RefMut_drop(RefMut_write(d.cell, v)) ELSE d.cell]
    /\ UNCHANGED <<strong, weak, rc, wk, gS, gM, pS, pM, res, upg>>

\* downgrade on strong handle h: a new weak handle in the least free slot.
Downgrade(h) ==
    /\ rc[h] # 0
    /\ FreeWeak # {}
    /\ LET k == Least(FreeWeak)
           d == Rc_downgrade(rc[h], weak)
       IN /\ wk' = [wk EXCEPT ![k] = d.ptr]
          /\ weak' = d.weak
    /\ UNCHANGED <<inner, plain, strong, rc, gS, gM, pS, pM, res, upg>>

\* upgrade on weak handle k: None, or a new strong handle in the least free slot.
Upgrade(k) ==
    /\ wk[k] # 0
    /\ LET u == Weak_upgrade(wk[k], strong)
       IN IF u.some
          THEN /\ FreeRc # {}
               /\ rc' = [rc EXCEPT ![Least(FreeRc)] = u.ptr]
               /\ upg' = "Some"
               /\ strong' = u.strong
          ELSE /\ upg' = "None"
               /\ UNCHANGED <<rc, strong>>
    /\ UNCHANGED <<inner, plain, weak, wk, gS, gM, pS, pM, res>>

\* Strong handle h is dropped (no guard borrowed from it can outlive it): the
\* strong count falls; at 0 the container is destroyed and the weak count the
\* strong handles held is given up.
DropRc(h) ==
    /\ rc[h] # 0 /\ gS[h] = 0 /\ gM[h] = 0
    /\ LET a == rc[h]
           last == strong[a] = 1
       IN /\ strong' = [strong EXCEPT ![a] = @ - 1]
          /\ weak' = [weak EXCEPT ![a] = IF last THEN @ - 1 ELSE @]
          /\ inner' = [inner EXCEPT ![a] = IF last THEN NewCell(0) ELSE @]
          /\ plain' = [plain EXCEPT ![a] = IF last THEN NewCell(0) ELSE @]
          /\ pS' = [pS EXCEPT ![a] = IF last THEN 0 ELSE @]
          /\ pM' = [pM EXCEPT ![a] = IF last THEN 0 ELSE @]
    /\ rc' = [rc EXCEPT ![h] = 0]
    /\ UNCHANGED <<wk, gS, gM, res, upg>>

\* Weak handle k is dropped: the weak count falls (at 0 the allocation is freed).
DropWeak(k) ==
    /\ wk[k] # 0
    /\ weak' = [weak EXCEPT ![wk[k]] = @ - 1]
    /\ wk' = [wk EXCEPT ![k] = 0]
    /\ UNCHANGED <<inner, plain, strong, rc, gS, gM, pS, pM, res, upg>>

\* `h.downgrade().upgrade()`: downgrade immediately followed by upgrade of the
\* weak handle just made, which is then dropped.
DowngradeUpgrade(h) ==
    /\ rc[h] # 0
    /\ LET d == Rc_downgrade(rc[h], weak)
           u == Weak_upgrade(d.ptr, strong)
       IN IF u.some
          THEN /\ FreeRc # {}
               /\ rc' = [rc EXCEPT ![Least(FreeRc)] = u.ptr]
               /\ upg' = "RoundTripSome"
               /\ strong' = u.strong
          ELSE /\ upg' = "RoundTripNone"
               /\ UNCHANGED <<rc, strong>>
    /\ UNCHANGED <<inner, plain, weak, wk, gS, gM, pS, pM, res>>

\* Spec: the RefCell binding and the Rc forwarding binding.
Next ==
    \/ \E v \in Values : RcNew(v) /\ UNCHANGED lockVars
    \/ \E h \in Handles : BorrowInt(h) /\ UNCHANGED lockVars
    \/ \E h \in Handles : BorrowIntMut(h) /\ UNCHANGED lockVars
    \/ \E h \in Handles : DropRef(h) /\ UNCHANGED lockVars
    \/ \E h \in Handles : DropRefMut(h) /\ UNCHANGED lockVars
    \/ \E h \in Handles, v \in Values : Write(h, v) /\ UNCHANGED lockVars
    \/ \E h \in Handles : DropRc(h) /\ UNCHANGED lockVars

Spec == Init /\ [][Next]_vars

\* SpecRc: the StrongReference / WeakReference bindings.
NextRc ==
    \/ \E v \in Values : RcNew(v) /\ UNCHANGED lockVars
    \/ \E h \in Handles : Downgrade(h) /\ UNCHANGED lockVars
    \/ \E k \in WeakHandles : Upgrade(k) /\ UNCHANGED lockVars
    \/ \E h \in Handles : DowngradeUpgrade(h) /\ UNCHANGED lockVars
    \/ \E h \in Handles : DropRc(h) /\ UNCHANGED lockVars
    \/ \E k \in WeakHandles : DropWeak(k) /\ UNCHANGED lockVars
    \/ \E h \in Handles, v \in Values : WriteThrough(h, v) /\ UNCHANGED lockVars

SpecRc == Init /\ [][NextRc]_vars

\* ------------------------------------------------ Mutex / RwLock bindings
\* A lock call is a record: ready (the call can return now; otherwise the
\* thread stays blocked), out (the Result it returns) and the lock afterwards.
\* Err(PoisonError) wraps the guard, so the lock is taken on both outcomes.
Outcome(l) == IF l.poisoned THEN "Poisoned" ELSE "Ok"

\* Mutant of lock: the poison flag is swallowed.
Mutex_lock_SwallowsPoison(l) ==
    [ready |-> ~l.locked, out |-> "Ok", lock |-> [l EXCEPT !.locked = TRUE]]

\* Mutex::lock
Mutex_lock(l) ==
    [ready |-> ~l.locked, out |-> Outcome(l), lock |-> [l EXCEPT !.locked = TRUE]]

\* Mutant of borrow_int: a shared mode that does not take the mutex.
Mutex_borrow_int_SharedMode(l) == [ready |-> TRUE, out |-> Outcome(l), lock |-> l]

\* <Mutex<T> as InteriorMut<T>>::borrow_int = self.lock()
Mutex_borrow_int(l) == Mutex_lock(l)

\* <Mutex<T> as InteriorMut<T>>::borrow_int_mut = self.lock()
Mutex_borrow_int_mut(l) == Mutex_lock(l)

\* <RwLock<T> as InteriorMut<T>>::borrow_int = self.read(). Whether a waiting
\* writer holds back new readers is left to the platform; no policy is modelled.
RwLock_borrow_int(l) ==
    [ready |-> ~l.writer, out |-> Outcome(l), lock |-> [l EXCEPT !.readers = @ + 1]]

\* Mutant of borrow_int_mut: the write lock does not wait for the readers.
RwLock_borrow_int_mut_IgnoresReaders(l) ==
    [ready |-> ~l.writer, out |-> Outcome(l), lock |-> [l EXCEPT !.writer = TRUE]]

\* <RwLock<T> as InteriorMut<T>>::borrow_int_mut = self.write()
RwLock_borrow_int_mut(l) ==
    [ready |-> ~l.writer /\ l.readers = 0, out |-> Outcome(l),
     lock |-> [l EXCEPT !.writer = TRUE]]

\* Mutant of the guard's drop: the mutex stays locked.
MutexGuard_drop_KeepsLocked(l, panicking) ==
    [l EXCEPT !.poisoned = @ \/ panicking]

\* MutexGuard leaves scope; dropped during a panic it poisons the mutex.
MutexGuard_drop(l, panicking) ==
    [l EXCEPT !.locked = FALSE, !.poisoned = @ \/ panicking]

\* RwLockReadGuard leaves scope (never poisons).
RwLockReadGuard_drop(l) == [l EXCEPT !.readers = @ - 1]

\* RwLockWriteGuard leaves scope; dropped during a panic it poisons the lock.
RwLockWriteGuard_drop(l, panicking) ==
    [l EXCEPT !.writer = FALSE, !.poisoned = @ \/ panicking]

Ops == {"borrow_int", "borrow_int_mut"}
Slots == {"sh", "ex", "errSh", "errEx"}

\* borrow call `op` on a lock of kind `k`
Borrow(k, op, l) ==
    IF k = "Mutex"
    THEN IF op = "borrow_int" THEN Mutex_borrow_int(l) ELSE Mutex_borrow_int_mut(l)
    ELSE IF op = "borrow_int" THEN RwLock_borrow_int(l) ELSE RwLock_borrow_int_mut(l)

\* n guards of slot `slot` leave scope on a lock of kind `k`
RECURSIVE DropGuards(_, _, _, _, _)
DropGuards(k, slot, n, l, panicking) ==
    IF n = 0 THEN l
    ELSE DropGuards(k, slot, n - 1,
            IF k = "Mutex" THEN MutexGuard_drop(l, panicking)
            ELSE IF slot \in {"sh", "errSh"} THEN RwLockReadGuard_drop(l)
            ELSE RwLockWriteGuard_drop(l, panicking),
            panicking)

Total(g) == g.sh + g.ex + g.errSh + g.errEx
NoGuards == [sh |-> 0, ex |-> 0, errSh |-> 0, errEx |-> 0]

\* the guards in g that were taken in exclusive mode on a lock of kind k
Exclusive(k, g) == IF k = "Mutex" THEN Total(g) ELSE g.ex + g.errEx

InitLock == CellInit /\ kind \in {"Mutex", "RwLock"} /\ LockStart

\* Thread t calls borrow_int or borrow_int_mut; it is in the call until Return.
Call(t, op) ==
    /\ pc[t] = "idle"
    /\ Total(held[t]) < MaxHeld
    /\ pc' = [pc EXCEPT ![t] = op]
    /\ ret' = [ret EXCEPT ![t] = "none"]
    /\ UNCHANGED <<kind, lock, held, diedExcl>>

\* The call of t returns: Ok(guard), or Err(PoisonError(guard)).
Return(t) ==
    /\ pc[t] \in Ops
    /\ LET r == Borrow(kind, pc[t], lock)
           slot == IF r.out = "Ok"
                   THEN (IF pc[t] = "borrow_int" THEN "sh" ELSE "ex")
                   ELSE (IF pc[t] = "borrow_int" THEN "errSh" ELSE "errEx")
       IN /\ r.ready
          /\ lock' = r.lock
          /\ held' = [held EXCEPT ![t][slot] = @ + 1]
          /\ ret' = [ret EXCEPT ![t] = r.out]
    /\ pc' = [pc EXCEPT ![t] = "idle"]
    /\ UNCHANGED <<kind, diedExcl>>

\* A guard of t (or an error value carrying one) leaves scope.
Release(t, slot) ==
    /\ pc[t] = "idle"
    /\ held[t][slot] > 0
    /\ lock' = DropGuards(kind, slot, 1, lock, FALSE)
    /\ held' = [held EXCEPT ![t][slot] = @ - 1]
    /\ UNCHANGED <<kind, pc, ret, diedExcl>>

\* Thread t panics: in its own code, or inside a lock call on a lock it already
\* holds (such a call never returns: it blocks forever or panics). Unwinding
\* drops every guard t owns.
Panic(t) ==
    /\ pc[t] = "idle" \/ (pc[t] \in Ops /\ Total(held[t]) > 0)
    /\ LET g == held[t]
           l1 == DropGuards(kind, "sh", g.sh, lock, TRUE)
           l2 == DropGuards(kind, "errSh", g.errSh, l1, TRUE)
           l3 == DropGuards(kind, "ex", g.ex, l2, TRUE)
       IN lock' = DropGuards(kind, "errEx", g.errEx, l3, TRUE)
    /\ diedExcl' = [diedExcl EXCEPT ![t] = Exclusive(kind, held[t]) > 0]
    /\ held' = [held EXCEPT ![t] = NoGuards]
    /\ pc' = [pc EXCEPT ![t] = "panicked"]
    /\ UNCHANGED <<kind, ret>>

NextLock ==
    \/ \E t \in Threads, op \in Ops : Call(t, op) /\ UNCHANGED cellVars
    \/ \E t \in Threads : Return(t) /\ UNCHANGED cellVars
    \/ \E t \in Threads, slot \in Slots : Release(t, slot) /\ UNCHANGED cellVars
    \/ \E t \in Threads : Panic(t) /\ UNCHANGED cellVars

SpecLock == InitLock /\ [][NextLock]_vars

\* Scheduling: a thread that can run does run. A call that stays able to
\* return returns, and a running thread that owns a guard lets one go.
FairSpecLock ==
    /\ SpecLock
    /\ \A t \in Threads : WF_vars(Return(t) /\ UNCHANGED cellVars)
    /\ \A t \in Threads :
          WF_vars((\E slot \in Slots : Release(t, slot)) /\ UNCHANGED cellVars)

\* ------------------------------------------------------------ properties
RECURSIVE SumOver(_, _)
SumOver(f, S) ==
    IF S = {} THEN 0
    ELSE LET x == CHOOSE y \in S : TRUE IN f[x] + SumOver(f, S \ {x})

HandlesTo(a) == {h \in Handles : rc[h] = a}

\* C2: on the RefCell binding every borrow_int call returns at once: the
\* conflict error BorrowError, taking no handle, when an exclusive handle of
\* the cell is outstanding, and Ok with one more shared handle when the
\* outstanding handles are all shared (or there is none).
C2_BorrowInt ==
    [][\A h \in Handles : BorrowInt(h) =>
          LET a == rc[h]
          IN /\ pM[a] > 0 => res'.plain = "BorrowError" /\ pS'[a] = pS[a]
             /\ pM[a] = 0 => res'.plain = "Ok" /\ pS'[a] = pS[a] + 1]_vars

C2_Witness ==
    /\ res.op = "borrow_int" /\ res.plain = "BorrowError"
    /\ \E a \in Allocs : strong[a] > 0 /\ pM[a] = 1

\* C3: on the RefCell binding every borrow_int_mut call returns at once: the
\* conflict error BorrowMutError, taking no handle, when any shared or
\* exclusive handle of the cell is outstanding, and Ok only when none is; so
\* an exclusive handle never coexists with another handle of the same cell.
C3_BorrowIntMut ==
    /\ [][\A h \in Handles : BorrowIntMut(h) =>
            LET a == rc[h]
            IN /\ pS[a] + pM[a] > 0 =>
                    res'.plain = "BorrowMutError" /\ pM'[a] = pM[a]
               /\ pS[a] + pM[a] = 0 => res'.plain = "Ok" /\ pM'[a] = 1]_vars
    /\ [](\A a \in Allocs : pM[a] <= 1 /\ (pM[a] = 1 => pS[a] = 0))

C3_Witness ==
    /\ res.op = "borrow_int_mut" /\ res.plain = "BorrowMutError"
    /\ \E a \in Allocs : strong[a] > 0 /\ pS[a] > 0 /\ pM[a] = 0

\* C8: the same sequence of borrow_int, borrow_int_mut and releases, run
\* through Rc<RefCell> and run on a RefCell directly, gives the same outcome
\* at every step (the same error included) and leaves the same borrow state
\* and the same outstanding handles.
C8_RcForwards ==
    /\ res.rc = res.plain
    /\ \A a \in Allocs : strong[a] > 0 =>
          /\ inner[a] = plain[a]
          /\ SumOver(gS, HandlesTo(a)) = pS[a]
          /\ SumOver(gM, HandlesTo(a)) = pM[a]

C8_Witness ==
    /\ res.rc = "BorrowMutError" /\ res.plain = "BorrowMutError"
    /\ \E h \in Handles : rc[h] # 0 /\ gS[h] = MaxShared /\ pS[rc[h]] = MaxShared

\* C10: on the RefCell binding a borrow_int or borrow_int_mut call that fails
\* leaves the borrow flag, the wrapped value and the outstanding handles as
\* they were; so once the conflicting handles are released the same request
\* succeeds: borrow_int when no exclusive handle is left, borrow_int_mut when
\* no handle is left.
C10_FailedBorrowFrame ==
    /\ [][\A h \in Handles :
            (BorrowInt(h) \/ BorrowIntMut(h)) /\ res'.plain # "Ok" =>
                plain' = plain /\ pS' = pS /\ pM' = pM]_vars
    /\ [](\A a \in Allocs : strong[a] > 0 =>
            /\ pM[a] = 0 => RefCell_borrow_int(plain[a]).out = "Ok"
            /\ pS[a] + pM[a] = 0 => RefCell_borrow_int_mut(plain[a]).out = "Ok")

C10_Witness ==
    /\ res.op = "borrow_int_mut" /\ res.plain = "BorrowMutError"
    /\ \E a \in Allocs : strong[a] > 0 /\ pM[a] = 1 /\ plain[a].value = MaxValue

\* C6: upgrade on a Weak returns Some exactly when a strong handle to the
\* same container is alive at the call; and once a container has no strong
\* handle left it never has one again, however many weak handles remain.
C6_UpgradeIffStrong ==
    [][/\ \A k \in WeakHandles : Upgrade(k) =>
             /\ upg' \in {"Some", "None"}
             /\ upg' = "Some" <=> \E h \in Handles : rc[h] = wk[k]
       /\ \A k \in WeakHandles :
             (wk[k] # 0 /\ wk'[k] = wk[k] /\ HandlesTo(wk[k]) = {}) =>
                 \A h \in Handles : rc'[h] # wk[k]]_vars

C6_Witness ==
    /\ upg = "None"
    /\ \A k \in WeakHandles : wk[k] = wk[1] /\ wk[k] # 0
    /\ strong[wk[1]] = 0 /\ weak[wk[1]] = MaxWeak
    /\ \E h \in Handles : rc[h] # 0

\* C7: downgrade has no failure outcome and gives a weak handle to the
\* container of the strong handle; downgrade followed at once by upgrade,
\* the strong handle alive, gives Some strong handle to the same container,
\* the original untouched, with the same contents when borrowed; a write
\* through one handle is read through every handle to that container.
C7_DowngradeUpgrade ==
    [][/\ \A h \in Handles : Downgrade(h) => wk'[Least(FreeWeak)] = rc[h]
       /\ \A h \in Handles : DowngradeUpgrade(h) =>
             /\ upg' = "RoundTripSome"
             /\ rc'[Least(FreeRc)] = rc[h] /\ rc'[h] = rc[h]
             /\ Rc_borrow_int(rc'[Least(FreeRc)], inner').cell.value =
                   Rc_borrow_int(rc[h], inner).cell.value
       /\ \A h \in Handles, v \in Values : WriteThrough(h, v) =>
             \A h2 \in HandlesTo(rc[h]) :
                 Rc_borrow_int(rc'[h2], inner').cell.value = v]_vars

C7_Witness ==
    /\ upg = "RoundTripSome"
    /\ \E h, n \in Handles : h # n /\ rc[h] # 0 /\ rc[h] = rc[n]
                              /\ inner[rc[n]].value = MaxValue

Count(slot) == SumOver([t \in Threads |-> held[t][slot]], Threads)

\* C1: on the RwLock binding, in every interleaving of borrow_int,
\* borrow_int_mut and releases by several threads, at most one exclusive
\* handle is outstanding and none is outstanding together with a shared
\* handle (several shared handles may be outstanding together).
C1_RwLockExclusion ==
    kind = "RwLock" =>
        /\ Count("ex") <= 1
        /\ Count("ex") = 1 => Count("sh") = 0
        /\ Count("sh") > 0 => ~lock.writer
        /\ Count("sh") <= lock.readers

C1_Witness ==
    /\ kind = "RwLock"
    /\ \E t, u \in Threads : t # u /\ held[t].sh > 0 /\ held[u].sh > 0
    /\ \E t \in Threads : pc[t] = "borrow_int_mut"

\* C4: on the Mutex binding borrow_int takes the mutex as borrow_int_mut
\* does: at most one handle is outstanding, whichever of the two calls it
\* came from, and the mutex is locked while it is; two shared handles are
\* never outstanding together.
C4_MutexOneHandle ==
    kind = "Mutex" =>
        /\ Count("sh") + Count("ex") <= 1
        /\ Count("sh") + Count("ex") = 1 => lock.locked

C4_Witness ==
    /\ kind = "Mutex"
    /\ \E t, u \in Threads : t # u /\ held[t].sh = 1 /\ pc[u] = "borrow_int"

AllShared == Count("sh") + Count("errSh")
AllExclusive == Count("ex") + Count("errEx")

\* C9: on Mutex and RwLock, once a thread has panicked while owning an
\* exclusive guard every borrow that returns returns the poison error; the
\* error carries the guard, so the lock is held until the error is dropped;
\* and exclusion counts the guards inside errors like the others.
C9_PoisonCarriesGuard ==
    /\ [][\A t \in Threads : (pc[t] \in Ops /\ pc'[t] = "idle") =>
            /\ (\E u \in Threads : diedExcl[u]) => ret'[t] = "Poisoned"
            /\ ret'[t] = "Poisoned" =>
                  /\ held'[t].errSh + held'[t].errEx =
                        held[t].errSh + held[t].errEx + 1
                  /\ held'[t].sh = held[t].sh /\ held'[t].ex = held[t].ex
                  /\ \E u \in Threads : pc[u] = "panicked"]_vars
    /\ [](IF kind = "Mutex"
          THEN /\ AllShared + AllExclusive <= 1
               /\ AllShared + AllExclusive = 1 => lock.locked
          ELSE /\ AllExclusive <= 1
               /\ AllExclusive = 1 => AllShared = 0 /\ lock.writer
               /\ AllShared = lock.readers)

C9_Witness ==
    /\ \E u \in Threads : diedExcl[u]
    /\ \E t \in Threads :
          /\ ret[t] = "Poisoned" /\ held[t].errEx = 1
          /\ \E w \in Threads : w # t /\ pc[w] \in Ops /\ Total(held[w]) = 0

\* u owns a guard that conflicts with the call thread t is in
Conflicts(u, t) ==
    IF kind = "RwLock" /\ pc[t] = "borrow_int"
    THEN held[u].ex + held[u].errEx > 0
    ELSE Total(held[u]) > 0

Blocked(t) == pc[t] \in Ops

====
